---------------------------- MODULE Spec2Model ----------------------------
(***************************************************************************)
(* Eagle Harbor Monitor: the scrape -> dedupe -> classify -> notify        *)
(* pipeline over the relational store of database/schema.sql.              *)
(*                                                                         *)
(* The store (articles, subscribers, alerts_sent) is modelled from         *)
(* database/schema.sql; the scraper's ingest loop from the legistar_scraper*)
(* listing in ANALYSIS_REPORT.md; the verify page from the Next.js source. *)
(* The FastAPI routes, the AI service and the email service are not part   *)
(* of the sources at hand: their definitions follow the written contract.  *)
(***************************************************************************)
EXTENDS Integers, Sequences, FiniteSets, TLC

VARIABLES
    articles,       \* the committed rows of table articles, in id order (id = index)
    pc,             \* per scraper: "idle" | "loop" (inside the for-loop of a run)
    remaining,      \* per scraper: matters of the fetched response not yet looped over
    pending,        \* per scraper: urls db.add()-ed in the open session, not committed
    lastCall,       \* per scraper: the last matter looped over and how it ended
    lastRun,        \* per scraper: how the last run ended: "none" | "ok" | "error" | ...
    subscribers,    \* the rows of table subscribers, by email (UNIQUE NOT NULL)
    consumed,       \* history: per token, how often GET /verify/{token} succeeded
    everVerified,   \* history: emails whose verification has succeeded
    page,           \* the verify page: token of the link, status, errorMessage, http
    alerts_sent,    \* the rows of table alerts_sent, in id order
    dpc,            \* per dispatch sweep: "idle" | "selected" | "sent"
    dsp,            \* per dispatch sweep: the dispatch call in progress
    cpc,            \* the classifier sweep: "idle" | "calling" (awaiting the collaborator)
    cart,           \* the id of the article the sweep is classifying (0: none)
    attempts,       \* retries made in the analysis in progress
    calls,          \* history: the answers to the ended calls of that analysis
    mcart,          \* article a second sweep (analyze_articles.py) is on, 0 if none
    origin,         \* history: per classified article id, "ai" | "fallback"
    events,         \* the rows of table events, in id order
    now,            \* the clock, in days
    upcoming,       \* the last response of GET /api/events/upcoming
    question,       \* AskQuestion: the text in the input
    messages,       \* AskQuestion: the message list
    loading,        \* per form (AskQuestion, EmailSubscribe): its loading state
    inflight,       \* per form: the requests sent and not yet settled
    asked,          \* history: number of /api/ask requests sent
    notice,         \* EmailSubscribe: what is shown, "none" | "message" | "error"
    upage           \* the unsubscribe page: token, status, errorMessage, http

ingestVars == <<pc, remaining, pending, lastCall, lastRun>>
subscriberVars == <<subscribers, consumed, everVerified>>
dispatchVars == <<alerts_sent, dpc, dsp>>
classifyVars == <<cpc, cart, attempts, calls, mcart, origin>>
eventVars == <<events, now, upcoming>>
uiVars == <<question, messages, loading, inflight, asked, notice, upage>>

vars == <<articles, ingestVars, subscriberVars, page, dispatchVars, classifyVars, eventVars,
          uiVars>>

---------------------------------------------------------------------------
(* Bounds of the model *)

\* Rows the articles table may reach before runs stop adding.
MaxArticles == 3
\* Matters in one fetched response.
MaxBatch == 2
\* Dispatch calls, recorded or in progress, after which sweeps stop starting.
MaxAlerts == 2
\* Recipients in one call of the email collaborator.
BatchLimit == 2
\* Articles in the store while the dispatcher is looked at.
MaxCandidates == 2

---------------------------------------------------------------------------
(* Values *)

\* A nullable INTEGER column holding no value.
NULL == -1

\* The timer functions that write articles.
Adapters == {"legistar", "rss"}

\* URLs as the sources list them: host (as cased by the source), path and
\* the value of a tracking query parameter (0: none), e.g.
\* [host |-> "x", path |-> "a", utm |-> 1] is http://x/a?utm=1.
Url(h, p, t) == [host |-> h, path |-> p, utm |-> t]

\* The empty string as MatterURL: the default of matter.get('MatterURL', '').
EmptyUrl == Url("", "", 0)

RawUrls == {Url("x", "a", 0), Url("x", "a", 1), Url("X", "a", 0),
            Url("x", "b", 0), EmptyUrl}

\* Titles of fetched matters; "zoning" stands for a text that holds a
\* watched keyword, "picnic" for one that holds none.
Titles == {"zoning", "picnic"}

LowerHost(h) == IF h = "X" THEN "x" ELSE h

\* Normalization of a URL to its canonical form: tracking query parameters
\* stripped, scheme/host lower-cased.
Canonical(u) == [host |-> LowerHost(u.host), path |-> u.path, utm |-> 0]

\* any_keyword_match: substring match of the lower-cased text against the
\* keyword list.
any_keyword_match(title) == title \in {"zoning"}

\* A row of table articles as the scraper inserts it: the columns it sets and
\* the column defaults of the schema.
NewArticle(title, url) ==
    [title |-> title, url |-> url,
     priority_score |-> NULL, relevance_score |-> NULL,
     category |-> "null", county |-> "null",
     notified |-> FALSE, analyzed |-> FALSE]

StoredUrls == {articles[i].url : i \in DOMAIN articles}

SeqToSet(s) == {s[i] : i \in DOMAIN s}

NoCall == [result |-> "none", known |-> FALSE]

\* Subscribers' addresses.
Emails == {"ann", "bob"}

\* The tokens issued on subscribe: 32-char secrets.token_urlsafe values,
\* modelled as numbers that differ per address and per kind.
VerificationTokenOf(email) == IF email = "ann" THEN 1 ELSE 3
UnsubscribeTokenOf(email) == IF email = "ann" THEN 2 ELSE 4

\* What a client may put in a /verify/ or /unsubscribe/ link: every issued
\* token and one that was never issued.
TokenInputs == {VerificationTokenOf(e) : e \in Emails}
                  \cup {UnsubscribeTokenOf(e) : e \in Emails} \cup {9}

AlertClasses == {"instant", "digest"}

Dispatchers == {"d1", "d2"}

\* Dispatch calls in progress.
InProgress(running) == Cardinality({d \in Dispatchers : running[d] # "idle"})

NoDispatch ==
    [class |-> "none", article |-> 0, targets |-> {}, skipped |-> {},
     snapshot |-> {}, attempted |-> {}, messages |-> {}, succeeded |-> {}]

NoResponse == [at |-> 0, days |-> 0, events |-> {}]

\* The forms of the landing page: AskQuestion and EmailSubscribe.
Forms == {"ask", "subscribe"}

ClosedPage == [token |-> NULL, status |-> "closed", errorMessage |-> "", http |-> "none"]

---------------------------------------------------------------------------
(* Initial state: empty tables, no run in progress *)

Init ==
    /\ articles = << >>
    /\ pc = [ad \in Adapters |-> "idle"]
    /\ remaining = [ad \in Adapters |-> 0]
    /\ pending = [ad \in Adapters |-> << >>]
    /\ lastCall = [ad \in Adapters |-> NoCall]
    /\ lastRun = [ad \in Adapters |-> "none"]
    /\ subscribers = [e \in {} |-> NULL]
    /\ consumed = [t \in TokenInputs |-> 0]
    /\ everVerified = {}
    /\ page = ClosedPage
    /\ alerts_sent = << >>
    /\ dpc = [d \in Dispatchers |-> "idle"]
    /\ dsp = [d \in Dispatchers |-> NoDispatch]
    /\ cpc = "idle"
    /\ cart = 0
    /\ attempts = 0
    /\ calls = << >>
    /\ mcart = 0
    /\ origin = [i \in {} |-> "none"]
    /\ events = << >>
    /\ now = 0
    /\ upcoming = NoResponse
    /\ question = << >>
    /\ messages = << >>
    /\ loading = [f \in Forms |-> FALSE]
    /\ inflight = [f \in Forms |-> {}]
    /\ asked = 0
    /\ notice = "none"
    /\ upage = ClosedPage

---------------------------------------------------------------------------
(* The scraper run: legistar_scraper *)

\* The timer fires: the response is fetched and a session opened.
StartRun(ad) ==
    /\ pc[ad] = "idle"
    /\ \E n \in 1..MaxBatch : remaining' = [remaining EXCEPT ![ad] = n]
    /\ pc' = [pc EXCEPT ![ad] = "loop"]
    /\ pending' = [pending EXCEPT ![ad] = << >>]
    /\ lastCall' = [lastCall EXCEPT ![ad] = NoCall]
    /\ UNCHANGED <<articles, lastRun, subscriberVars, page, dispatchVars, classifyVars, eventVars, uiVars>>

\* The session's query for an existing row with this url: it sees the
\* committed rows and, the session flushing before a query, its own adds.
ExistingRow(ad, url) == url \in StoredUrls \cup SeqToSet(pending[ad])

\* An INSERT of the session hits the UNIQUE constraint on articles.url once
\* another transaction has committed the same url.
UniqueViolation(ad) == SeqToSet(pending[ad]) \cap StoredUrls # {}

\* Rows added in sessions still open.
OpenAdds ==
    LET n(ad) == IF pc[ad] = "loop" THEN Len(pending[ad]) ELSE 0
    IN n("legistar") + n("rss")

\* requests.get raises (timeout, connection error, HTTP error status): the
\* exception handler logs it, the run ends before a session is opened.
FetchFails(ad) ==
    /\ pc[ad] = "idle"
    /\ lastRun' = [lastRun EXCEPT ![ad] = "unavailable"]
    /\ UNCHANGED <<articles, pc, remaining, pending, lastCall,
                   subscriberVars, page, dispatchVars, classifyVars, eventVars, uiVars>>

RunFails_Abort(ad) ==
    /\ pc' = [a \in Adapters |-> "idle"]
    /\ remaining' = [a \in Adapters |-> 0]
    /\ lastRun' = [a \in Adapters |-> "error"]
    /\ UNCHANGED <<articles, pending>>

\* The exception handler of the run: the error is logged, the session's work
\* is lost.
RunFails(ad) ==
    /\ pc' = [pc EXCEPT ![ad] = "idle"]
    /\ remaining' = [remaining EXCEPT ![ad] = 0]
    /\ lastRun' = [lastRun EXCEPT ![ad] = "error"]
    /\ UNCHANGED <<articles, pending>>

Relisted_Upsert(rows, url) ==
    [i \in DOMAIN rows |->
        IF rows[i].url = url THEN NewArticle(rows[i].title, url) ELSE rows[i]]

\* The rows after a matter whose url is already there: `continue`, no row
\* is written.
Relisted(rows, url) == rows

\* A matter whose fields are there in part: a key with a null value
\* (MatterFile, Title or MatterText), on which .get(...) or + raises.
PartialFields == BOOLEAN

\* The exception of a partial matter reaches the handler around the loop:
\* the run ends there, without the commit.
RecordFails(ad) ==
    /\ pc' = [pc EXCEPT ![ad] = "idle"]
    /\ remaining' = [remaining EXCEPT ![ad] = 0]
    /\ lastRun' = [lastRun EXCEPT ![ad] = "malformed"]
    /\ UNCHANGED <<articles, pending>>

\* One iteration of the for-loop: the fields are read, then keyword filter,
\* existing-url check, add.
ProcessMatter(ad) ==
    /\ pc[ad] = "loop"
    /\ remaining[ad] > 0
    /\ UNCHANGED <<subscriberVars, page, dispatchVars, classifyVars, eventVars, uiVars>>
    /\ \E partial \in PartialFields :
        IF partial
        THEN /\ RecordFails(ad)
             /\ UNCHANGED lastCall
        ELSE \E title \in Titles, url \in RawUrls :
            LET known == \E v \in StoredUrls \cup SeqToSet(pending[ad]) :
                            Canonical(v) = Canonical(url)
            IN
            IF ~any_keyword_match(title)
            THEN /\ lastCall' = [lastCall EXCEPT ![ad] =
                        [result |-> "Filtered", known |-> known]]
                 /\ remaining' = [remaining EXCEPT ![ad] = @ - 1]
                 /\ UNCHANGED <<articles, pc, pending, lastRun>>
            ELSE IF UniqueViolation(ad)
            THEN /\ lastCall' = [lastCall EXCEPT ![ad] =
                        [result |-> "Error", known |-> known]]
                 /\ RunFails(ad)
            ELSE IF ExistingRow(ad, url)
            THEN /\ lastCall' = [lastCall EXCEPT ![ad] =
                        [result |-> "AlreadyExists", known |-> known]]
                 /\ remaining' = [remaining EXCEPT ![ad] = @ - 1]
                 /\ articles' = Relisted(articles, url)
                 /\ UNCHANGED <<pc, pending, lastRun>>
            ELSE /\ Len(articles) + OpenAdds < MaxArticles
                 /\ lastCall' = [lastCall EXCEPT ![ad] =
                        [result |-> "Inserted", known |-> known]]
                 /\ pending' = [pending EXCEPT ![ad] = Append(@, url)]
                 /\ remaining' = [remaining EXCEPT ![ad] = @ - 1]
                 /\ UNCHANGED <<articles, pc, lastRun>>

\* db.commit() after the loop: all adds of the run become rows, or the
\* commit raises and none does.
Commit(ad) ==
    /\ pc[ad] = "loop"
    /\ remaining[ad] = 0
    /\ UNCHANGED <<subscriberVars, page, dispatchVars, classifyVars, eventVars, uiVars>>
    /\ IF UniqueViolation(ad)
       THEN /\ RunFails(ad)
            /\ UNCHANGED lastCall
       ELSE /\ articles' = articles \o
                    [i \in DOMAIN pending[ad] |-> NewArticle("zoning", pending[ad][i])]
            /\ pc' = [pc EXCEPT ![ad] = "idle"]
            /\ lastRun' = [lastRun EXCEPT ![ad] = "ok"]
            /\ UNCHANGED <<remaining, pending, lastCall>>

ScraperStep(ad) == StartRun(ad) \/ FetchFails(ad) \/ ProcessMatter(ad) \/ Commit(ad)

\* One scraper alone: a sequence of ingest calls.
NextIngest == ScraperStep("legistar")

SpecIngest == Init /\ [][NextIngest]_vars

\* The timers of two scrapers overlapping.
NextIngest2 == \E ad \in Adapters : ScraperStep(ad)

SpecIngest2 == Init /\ [][NextIngest2]_vars

---------------------------------------------------------------------------
(* Subscribers: POST /subscribe, GET /verify/{token}, GET /unsubscribe/{token} *)

\* A row of table subscribers as subscribe inserts it: the tokens it issues
\* and the column defaults of the schema.
NewSubscriber(email) ==
    [verified |-> FALSE,
     verification_token |-> VerificationTokenOf(email),
     unsubscribe_token |-> UnsubscribeTokenOf(email),
     is_active |-> TRUE]

\* POST /api/subscribe for an address not yet in the table.
Subscribe(email) ==
    /\ email \notin DOMAIN subscribers
    /\ subscribers' = [e \in DOMAIN subscribers \cup {email} |->
                          IF e = email THEN NewSubscriber(email) ELSE subscribers[e]]
    /\ UNCHANGED <<articles, ingestVars, classifyVars, eventVars, uiVars, consumed, everVerified, page, dispatchVars>>

\* The row a verification token selects (verification_token is UNIQUE; a
\* nulled token selects nothing).
VerificationMatch(token) ==
    {e \in DOMAIN subscribers :
        token # NULL /\ subscribers[e].verification_token = token}

\* The row GET /verify/{token} writes back on a match: verified set and the
\* token nulled in one update.
ConsumeVerification(row) ==
    [row EXCEPT !.verified = TRUE, !.verification_token = NULL]

\* The detail of the rejection of a token that selects no row.
RejectedVerificationDetail == "already verified"

\* GET /api/verify/{token}: the handler's effect on the store and its
\* response.
verify_email(token, response) ==
    IF VerificationMatch(token) # {}
    THEN /\ subscribers' = [e \in DOMAIN subscribers |->
                IF e \in VerificationMatch(token)
                THEN ConsumeVerification(subscribers[e]) ELSE subscribers[e]]
         /\ consumed' = [consumed EXCEPT ![token] = @ + 1]
         /\ everVerified' = everVerified \cup VerificationMatch(token)
         /\ response = [http |-> "200", detail |-> ""]
    ELSE /\ UNCHANGED <<subscribers, consumed, everVerified>>
         /\ response = [http |-> "4xx", detail |-> RejectedVerificationDetail]

\* A client other than the page follows a verification link.
VerifyEmail(token) ==
    /\ \E response \in [http : {"200", "4xx"}, detail : {"", RejectedVerificationDetail}] :
            verify_email(token, response)
    /\ UNCHANGED <<articles, ingestVars, classifyVars, eventVars, uiVars, page, dispatchVars>>

\* GET /api/unsubscribe/{token}: the row owning the token is kept and
\* switched inactive.
Unsubscribe(token) ==
    /\ \E e \in DOMAIN subscribers :
        /\ subscribers[e].unsubscribe_token = token
        /\ subscribers[e].is_active
        /\ subscribers' = [subscribers EXCEPT ![e].is_active = FALSE]
    /\ UNCHANGED <<articles, ingestVars, classifyVars, eventVars, uiVars, consumed, everVerified, page, dispatchVars>>

---------------------------------------------------------------------------
(* The verify page: VerifyContent *)

VerifyErrorMessage_Generic(detail) == "Verification failed. Token may have expired."

\* The message the page shows for a failed request: the detail of the
\* response when there is one, else the default text.
VerifyErrorMessage(detail) ==
    IF detail # "" THEN detail ELSE "Verification failed. Token may have expired."

\* The status a page takes when its request has settled.
SettledStatus_Success(http) == "success"

\* try { await axios.get(...); setStatus('success') } catch { setStatus('error') }
SettledStatus(http) == IF http = "200" THEN "success" ELSE "error"

\* The page mounts with the token of its link (NULL: the link has none) in
\* status 'verifying', and its effect starts.
OpenVerifyPage(token) ==
    /\ page.status # "verifying"
    /\ page' = [token |-> token, status |-> "verifying",
                errorMessage |-> "", http |-> "none"]
    /\ UNCHANGED <<articles, ingestVars, classifyVars, eventVars, uiVars, subscriberVars, dispatchVars>>

\* The effect ends: without a token at once and without a request; else the
\* awaited axios.get settles: the API answered, or the request failed
\* without a response.
VerifyPageSettles ==
    /\ page.status = "verifying"
    /\ IF page.token = NULL
       THEN /\ page' = [page EXCEPT !.status = "error",
                                    !.errorMessage = "No verification token found"]
            /\ UNCHANGED subscriberVars
       ELSE
        \/ \E response \in [http : {"200", "4xx"}, detail : {"", RejectedVerificationDetail}] :
            /\ verify_email(page.token, response)
            /\ page' = [page EXCEPT !.status = SettledStatus(response.http),
                                    !.http = response.http,
                                    !.errorMessage = IF response.http = "200" THEN ""
                                        ELSE VerifyErrorMessage(response.detail)]
        \/ /\ page' = [page EXCEPT !.status = SettledStatus("neterr"), !.http = "neterr",
                                   !.errorMessage = VerifyErrorMessage("")]
           /\ UNCHANGED subscriberVars
    /\ UNCHANGED <<articles, ingestVars, classifyVars, eventVars, uiVars, dispatchVars>>

NextSubscribers ==
    \/ \E email \in Emails : Subscribe(email)
    \/ \E token \in TokenInputs : VerifyEmail(token)
    \/ \E token \in TokenInputs : Unsubscribe(token)
    \/ \E token \in TokenInputs \cup {NULL} : OpenVerifyPage(token)
    \/ VerifyPageSettles

SpecSubscribers == Init /\ [][NextSubscribers]_vars

\* Consumptions of one address's verification token after which the operator
\* still deletes the address.
MaxReverify == 1

\* python manage_subscribers.py delete <email>, confirmed at the prompt: the
\* row of the address is deleted.
DeleteSubscriber(email) ==
    /\ email \in DOMAIN subscribers
    /\ consumed[VerificationTokenOf(email)] <= MaxReverify
    /\ subscribers' = [e \in DOMAIN subscribers \ {email} |-> subscribers[e]]
    /\ UNCHANGED <<articles, ingestVars, classifyVars, eventVars, uiVars, consumed, everVerified,
                   page, dispatchVars>>

\* The API and the operator's command line on one table.
NextSubscribersAdmin ==
    \/ NextSubscribers
    \/ \E email \in Emails : DeleteSubscriber(email)

SpecSubscribersAdmin == Init /\ [][NextSubscribersAdmin]_vars

---------------------------------------------------------------------------
(* The unsubscribe page: UnsubscribeContent *)

\* The tokens an unsubscribe link can carry: an address's own, or none.
UnsubscribeInputs == {UnsubscribeTokenOf(e) : e \in Emails} \cup {NULL}

\* GET /api/unsubscribe/{token}: the row of the token is made inactive and
\* the answer is 200; a token of no row is answered 4xx.
unsubscribe(token, response) ==
    IF \E e \in DOMAIN subscribers : subscribers[e].unsubscribe_token = token
    THEN /\ response.http = "200"
         /\ subscribers' = [e \in DOMAIN subscribers |->
                IF subscribers[e].unsubscribe_token = token
                THEN [subscribers[e] EXCEPT !.is_active = FALSE]
                ELSE subscribers[e]]
    ELSE /\ response.http = "4xx"
         /\ UNCHANGED subscribers

\* The message the page shows for a failed request.
UnsubscribeErrorMessage(detail) ==
    IF detail # "" THEN detail ELSE "Unsubscribe failed. Token may be invalid."

\* The page mounts with the token of its link in status 'unsubscribing',
\* and its effect starts.
OpenUnsubscribePage(token) ==
    /\ upage.status # "unsubscribing"
    /\ upage' = [token |-> token, status |-> "unsubscribing",
                 errorMessage |-> "", http |-> "none"]
    /\ UNCHANGED <<articles, ingestVars, classifyVars, eventVars, subscriberVars, page,
                   dispatchVars, question, messages, loading, inflight, asked, notice>>

\* The effect ends: without a token at once and without a request; else the
\* awaited axios.get settles.
UnsubscribePageSettles ==
    /\ upage.status = "unsubscribing"
    /\ IF upage.token = NULL
       THEN /\ upage' = [upage EXCEPT !.status = "error",
                                      !.errorMessage = "No unsubscribe token found"]
            /\ UNCHANGED subscribers
       ELSE
        \/ \E response \in [http : {"200", "4xx"}, detail : {"", "Invalid unsubscribe token"}] :
            /\ unsubscribe(upage.token, response)
            /\ upage' = [upage EXCEPT !.status = SettledStatus(response.http),
                                      !.http = response.http,
                                      !.errorMessage = IF response.http = "200" THEN ""
                                          ELSE UnsubscribeErrorMessage(response.detail)]
        \/ /\ upage' = [upage EXCEPT !.status = SettledStatus("neterr"), !.http = "neterr",
                                     !.errorMessage = UnsubscribeErrorMessage("")]
           /\ UNCHANGED subscribers
    /\ UNCHANGED <<articles, ingestVars, classifyVars, eventVars, consumed, everVerified, page,
                   dispatchVars, question, messages, loading, inflight, asked, notice>>

\* The API with both pages of the e-mailed links.
NextPages ==
    \/ \E email \in Emails : Subscribe(email)
    \/ \E token \in TokenInputs \cup {NULL} : OpenVerifyPage(token)
    \/ VerifyPageSettles
    \/ \E token \in UnsubscribeInputs : OpenUnsubscribePage(token)
    \/ UnsubscribePageSettles

SpecPages == Init /\ [][NextPages]_vars

---------------------------------------------------------------------------
(* Articles appearing in the store while other components run *)

\* The net effect of a scraper run that finds one new matter and commits.
ArticleAppears(title) ==
    /\ Len(articles) < MaxArticles
    /\ \A ad \in Adapters : pc[ad] = "idle"
    /\ LET url == CHOOSE u \in RawUrls \ {EmptyUrl} : u \notin StoredUrls
       IN articles' = Append(articles, NewArticle(title, url))
    /\ UNCHANGED <<ingestVars, classifyVars, eventVars, uiVars, subscriberVars, page, dispatchVars>>

---------------------------------------------------------------------------
(* Notification dispatcher: dispatch(alert_class, candidate_articles) *)

IsVerified_Any(row) == TRUE

\* The selection rule of the verified check before sending.
IsVerified(row) == row.verified = TRUE

\* The selection rule on the subscription being active.
IsActive(row) == row.is_active = TRUE

\* Subscribers eligible for alerts.
Eligible(row) == IsVerified(row) /\ IsActive(row)

\* An alerts_sent row covers (email, article, class).
Covers(rec, email, article, class) ==
    /\ rec.alert_type = class
    /\ email \in rec.sent_to
    /\ article \in rec.article_ids

\* The check of the log for a prior send of the article to the subscriber
\* under the alert class.
PriorSend(email, article, class) ==
    \E i \in DOMAIN alerts_sent : Covers(alerts_sent[i], email, article, class)

AlertRow_Untyped(class, article, recipients) ==
    [sent_to |-> recipients, article_ids |-> {article}, alert_type |-> "instant"]

\* The row appended to alerts_sent after a send; the table has no uniqueness
\* constraint besides its serial id.
AlertRow(class, article, recipients) ==
    [sent_to |-> recipients, article_ids |-> {article}, alert_type |-> class]

\* The priority from which an article is alerted on at once.
HighPriority == 8

InstantCandidate_Any(row) == TRUE

\* The flag that the alert sweep reads: the article was not alerted on yet.
Unnotified(row) == row.notified = FALSE

\* Articles that trigger an instant alert: analyzed, high priority (8+), not
\* yet flagged notified.
InstantCandidate(row) ==
    /\ row.priority_score # NULL
    /\ row.priority_score >= HighPriority
    /\ Unnotified(row)

\* Articles a digest carries: those the classifier has analyzed.
DigestCandidate(row) == row.analyzed = TRUE

Candidate_Any(class, row) == TRUE

\* The articles a dispatch of the class may carry.
Candidate(class, row) ==
    IF class = "instant" THEN InstantCandidate(row) ELSE DigestCandidate(row)

\* A sweep starts on an article: recipients are selected and the log is
\* checked for each (subscriber, article) pair.
StartDispatch(d) ==
    /\ dpc[d] = "idle"
    /\ Len(alerts_sent) + InProgress(dpc) < MaxAlerts
    /\ \E class \in AlertClasses, a \in DOMAIN articles :
        /\ Candidate(class, articles[a])
        /\ LET eligible == {e \in DOMAIN subscribers : Eligible(subscribers[e])}
               prior == {e \in eligible : PriorSend(e, a, class)}
           IN dsp' = [dsp EXCEPT ![d] =
                [class |-> class, article |-> a,
                 targets |-> eligible \ prior, skipped |-> prior,
                 snapshot |-> {[email |-> e, verified |-> subscribers[e].verified,
                                is_active |-> subscribers[e].is_active] :
                                    e \in eligible \ prior},
                 attempted |-> {}, messages |-> {}, succeeded |-> {}]]
    /\ dpc' = [dpc EXCEPT ![d] = "selected"]
    /\ UNCHANGED <<articles, ingestVars, classifyVars, eventVars, uiVars, subscriberVars, page, alerts_sent>>

UnsubscribeLinkFor_Shared(batch, email) ==
    subscribers[CHOOSE b \in batch : TRUE].unsubscribe_token

\* The unsubscribe link in the footer of the message to a recipient of the
\* batch: the link of the recipient's unsubscribe_token.
UnsubscribeLinkFor(batch, email) == subscribers[email].unsubscribe_token

\* The messages of a batched send, one per recipient.
BatchMessages(batch) ==
    {[to |-> e, link |-> UnsubscribeLinkFor(batch, e)] : e \in batch}

\* The next batches of a dispatch: recipients not yet attempted, up to the
\* limit of one call.
Batches(call) ==
    {b \in SUBSET (call.targets \ call.attempted) :
        b # {} /\ Cardinality(b) <= BatchLimit}

\* The email collaborator is called with a batch and answers per recipient;
\* a batch that fails as a whole has no recipient that succeeded.
SendBatch(d) ==
    /\ dpc[d] = "selected"
    /\ Batches(dsp[d]) # {}
    /\ \E batch \in Batches(dsp[d]) : \E ok \in SUBSET batch :
        dsp' = [dsp EXCEPT ![d].attempted = @ \cup batch,
                           ![d].messages = @ \cup BatchMessages(batch),
                           ![d].succeeded = @ \cup ok]
    /\ UNCHANGED <<articles, ingestVars, classifyVars, eventVars, uiVars, subscriberVars, page,
                   alerts_sent, dpc>>

\* All batches are through.
SendDone(d) ==
    /\ dpc[d] = "selected"
    /\ Batches(dsp[d]) = {}
    /\ dpc' = [dpc EXCEPT ![d] = "sent"]
    /\ UNCHANGED <<articles, ingestVars, classifyVars, eventVars, uiVars, subscriberVars, page,
                   alerts_sent, dsp>>

RecordedRecipients_Targets(call) == call.targets

\* The recipients written to the log: those whose send succeeded.
RecordedRecipients(call) == call.succeeded

\* The send is recorded: one alerts_sent row for the recipients that
\* succeeded, and the article flagged notified.
RecordAlert(d) ==
    /\ dpc[d] = "sent"
    /\ IF RecordedRecipients(dsp[d]) # {}
       THEN /\ alerts_sent' = Append(alerts_sent,
                    AlertRow(dsp[d].class, dsp[d].article, RecordedRecipients(dsp[d])))
            /\ articles' = [articles EXCEPT ![dsp[d].article].notified = TRUE]
       ELSE UNCHANGED <<alerts_sent, articles>>
    /\ dpc' = [dpc EXCEPT ![d] = "idle"]
    /\ dsp' = [dsp EXCEPT ![d] = NoDispatch]
    /\ UNCHANGED <<ingestVars, classifyVars, eventVars, uiVars, subscriberVars, page>>

DispatchStep(d) == StartDispatch(d) \/ SendBatch(d) \/ SendDone(d) \/ RecordAlert(d)

SubscriberStep ==
    \/ \E email \in Emails : Subscribe(email)
    \/ \E token \in TokenInputs : VerifyEmail(token)
    \/ \E token \in TokenInputs : Unsubscribe(token)

---------------------------------------------------------------------------
(* Classifier: the ArticleAnalyzer sweep and AIService.analyze_article *)

\* max_retries of the collaborator's client.
MaxRetries == 2

\* Articles in the store while the classifier sweeps.
MaxUnanalyzed == 2

\* Texts of the articles handed to the classifier; "" is an article without
\* text.
Texts == {"", "zoning", "picnic"}

Analysis(p, r, cat, cty) ==
    [priority_score |-> p, relevance_score |-> r, category |-> cat, county |-> cty]

\* Outputs of the collaborator that conform to the classification schema.
SchemaResults ==
    {Analysis(9, 9, "legislation", "prince_georges"), Analysis(7, 6, "policy", "unclear")}

\* The categories and counties of the classification schema.
Categories ==
    {"policy", "meeting", "legislation", "environmental", "community", "development"}
Counties == {"prince_georges", "charles", "both", "unclear"}

\* Outputs that are a JSON object with the keys of the schema and values
\* outside of it; the schema is stated in the prompt only.
LooseResults == {Analysis(11, 9, "other", "unclear")}

\* The outputs of the collaborator that parse as the JSON object asked for.
JsonResults == SchemaResults \cup LooseResults

fallback_analysis_Stateful(text) ==
    Analysis(IF attempts = 0 THEN 7 ELSE 6, 6, "policy", "unclear")

\* _fallback_analysis: keyword matching on the text, safe defaults without a
\* match.
fallback_analysis(text) ==
    IF any_keyword_match(text)
    THEN Analysis(7, 6, "policy", "unclear")
    ELSE Analysis(2, 1, "community", "unclear")

\* The ways a call of the collaborator ends without a usable output;
\* "malformed" is an answer that does not parse as JSON.
Failures == {"timeout", "malformed", "fatal", "exhausted"}

\* The answers of the collaborator that _call_openai_with_retry retries on.
RetryableAnswers == {"rate_limit", "server_error"}

RetryableFailure_Any(answer) == TRUE

\* Whether a call that ended with this answer is made again: 429 and 5xx.
RetryableFailure(answer) == answer \in RetryableAnswers


Unanalyzed_Any(row) == TRUE

\* The sweep's selection: articles not yet analyzed.
Unanalyzed(row) == row.analyzed = FALSE

StoreAnalysis_Unflagged(row, analysis) ==
    [row EXCEPT !.priority_score = analysis.priority_score,
                !.relevance_score = analysis.relevance_score,
                !.category = analysis.category,
                !.county = analysis.county]

\* The update of the row with an analysis: the classification columns and the
\* analyzed flag.
StoreAnalysis(row, analysis) ==
    [row EXCEPT !.priority_score = analysis.priority_score,
                !.relevance_score = analysis.relevance_score,
                !.category = analysis.category,
                !.county = analysis.county,
                !.analyzed = TRUE]

Origin(i) == IF i \in DOMAIN origin THEN origin[i] ELSE "none"

\* The classification state of an article: the analyzed flag tells
\* Unclassified from the rest, the way the analysis was produced tells
\* ClassificationFailed (fallback applied) from Classified.
ClassState(i) ==
    IF ~articles[i].analyzed THEN "Unclassified"
    ELSE IF Origin(i) = "fallback" THEN "ClassificationFailed"
    ELSE "Classified"

\* The sweep takes an unanalyzed article and calls the collaborator.
StartAnalysis ==
    /\ cpc = "idle"
    /\ \E i \in DOMAIN articles :
        /\ Unanalyzed(articles[i])
        /\ cart' = i
    /\ cpc' = "calling"
    /\ attempts' = 0
    /\ calls' = << >>
    /\ UNCHANGED <<articles, origin, mcart, ingestVars, subscriberVars, page, dispatchVars, eventVars, uiVars>>

\* analyze_article returns and the sweep writes the analysis to the row.
FinishAnalysis(analysis, how) ==
    /\ articles' = [articles EXCEPT ![cart] = StoreAnalysis(@, analysis)]
    /\ origin' = [j \in DOMAIN origin \cup {cart} |-> IF j = cart THEN how ELSE origin[j]]
    /\ cpc' = "idle"
    /\ cart' = 0
    /\ attempts' = 0
    /\ calls' = << >>
    /\ UNCHANGED <<mcart, ingestVars, subscriberVars, page, dispatchVars, eventVars, uiVars>>

\* The collaborator answers with a JSON object: it is taken as the analysis.
AnalysisSucceeds ==
    /\ cpc = "calling"
    /\ \E result \in JsonResults : FinishAnalysis(result, "ai")

\* The collaborator answers 429/5xx and retries are left: the call is made
\* again.
AnalysisRetries ==
    /\ cpc = "calling"
    /\ attempts < MaxRetries
    /\ \E answer \in RetryableAnswers \cup (Failures \ {"exhausted"}) :
        /\ RetryableFailure(answer)
        /\ calls' = Append(calls, answer)
    /\ attempts' = attempts + 1
    /\ UNCHANGED <<articles, cpc, cart, origin, mcart, ingestVars, subscriberVars, page, dispatchVars, eventVars, uiVars>>

\* The call times out, fails for good, has no retries left or returns an
\* output that is not of the schema: the fallback analysis is used.
AnalysisFallsBack(failure) ==
    /\ cpc = "calling"
    /\ failure = "exhausted" => attempts = MaxRetries
    /\ FinishAnalysis(fallback_analysis(articles[cart].title), "fallback")

CollaboratorAnswers ==
    AnalysisSucceeds \/ AnalysisRetries \/ \E failure \in Failures : AnalysisFallsBack(failure)

\* Ingest stores an article for the classifier.
UnanalyzedAppears ==
    /\ Len(articles) < MaxUnanalyzed
    /\ \E title \in Texts : ArticleAppears(title)

\* The classifier sweep beside ingest.
NextClassify ==
    \/ UnanalyzedAppears
    \/ StartAnalysis
    \/ CollaboratorAnswers

SpecClassify == Init /\ [][NextClassify]_vars

\* analyze_articles.py, started by hand while the timer's sweep may be
\* running: it takes an unanalyzed article and calls analyze_article.
ManualStart ==
    /\ mcart = 0
    /\ \E i \in DOMAIN articles :
        /\ Unanalyzed(articles[i])
        /\ mcart' = i
    /\ UNCHANGED <<articles, cpc, cart, attempts, calls, origin, ingestVars,
                   subscriberVars, page, dispatchVars, eventVars, uiVars>>

\* analyze_article has returned to the script, with the collaborator's
\* analysis or the fallback's, and the script updates the row.
ManualFinish ==
    /\ mcart # 0
    /\ \E how \in {"ai", "fallback"} :
        \E analysis \in IF how = "ai" THEN SchemaResults
                        ELSE {fallback_analysis(articles[mcart].title)} :
            /\ articles' = [articles EXCEPT ![mcart] = StoreAnalysis(@, analysis)]
            /\ origin' = [j \in DOMAIN origin \cup {mcart} |->
                            IF j = mcart THEN how ELSE origin[j]]
    /\ mcart' = 0
    /\ UNCHANGED <<cpc, cart, attempts, calls, ingestVars, subscriberVars, page,
                   dispatchVars, eventVars, uiVars>>

\* The timer's sweep and the script side by side.
NextClassify2 == NextClassify \/ ManualStart \/ ManualFinish

SpecClassify2 == Init /\ [][NextClassify2]_vars

\* Every call of the collaborator runs under a timeout, so a call in progress
\* is answered.
SpecClassifyLive == SpecClassify /\ WF_vars(CollaboratorAnswers)

---------------------------------------------------------------------------
(* The dispatcher beside the other components *)

\* An article is ingested while sweeps run.
CandidateAppears ==
    /\ Len(articles) < MaxCandidates
    /\ ArticleAppears("zoning")

\* The net effect of a run of the classifier sweep on an unanalyzed article
\* that the collaborator classifies.
ArticleAnalyzed ==
    /\ cpc = "idle"
    /\ \E i \in DOMAIN articles, result \in SchemaResults :
        /\ Unanalyzed(articles[i])
        /\ articles' = [articles EXCEPT ![i] = StoreAnalysis(@, result)]
        /\ origin' = [j \in DOMAIN origin \cup {i} |-> IF j = i THEN "ai" ELSE origin[j]]
    /\ UNCHANGED <<cpc, cart, attempts, calls, mcart, ingestVars, subscriberVars, page, dispatchVars, eventVars, uiVars>>

\* A scraper re-listing what the classifier has since analyzed.
NextReingest == ScraperStep("legistar") \/ ArticleAnalyzed

SpecReingest == Init /\ [][NextReingest]_vars

\* One dispatcher sweep at a time, beside ingest and the subscriber routes.
NextDispatch ==
    CandidateAppears \/ ArticleAnalyzed \/ SubscriberStep \/ DispatchStep("d1")

SpecDispatch == Init /\ [][NextDispatch]_vars

\* Two dispatcher sweeps overlapping.
NextDispatch2 ==
    CandidateAppears \/ ArticleAnalyzed \/
     SubscriberStep \/ \E d \in Dispatchers : DispatchStep(d)

SpecDispatch2 == Init /\ [][NextDispatch2]_vars

---------------------------------------------------------------------------
(* Events: extract_events.py and GET /api/events/upcoming *)

\* Rows the events table may reach before extraction stops adding.
MaxEvents == 2
\* Articles in the store while the calendar is looked at.
MaxEventArticles == 1
\* The last day of the clock and of the calendar.
MaxDay == 1

\* Titles the collaborator gives to the events it finds in a text.
EventTitles == {"hearing", "vote"}

\* Dates of extracted events, in days.
EventDates == {0, MaxDay}

\* The values of days in /api/events/upcoming?days=N.
QueryDays == {0, 1}

\* What one call of the collaborator yields for an article: no event (also
\* when no date can be parsed) or one event.
Extractions ==
    {{}} \cup {{[title |-> t, event_date |-> d]} : t \in EventTitles, d \in EventDates}

\* A row of table events as the extraction script creates it.
NewEvent(article, found) ==
    [title |-> found.title, event_date |-> found.event_date,
     article_id |-> article, is_cancelled |-> FALSE]

\* The events linked to an article.
LinkedEvents(article) == {i \in DOMAIN events : events[i].article_id = article}

\* The re-run check: an event of the article with the same title is there.
EventExists(article, title) ==
    \E i \in LinkedEvents(article) : events[i].title = title

\* extract_events.py on one analyzed article: the text goes to the
\* collaborator, an Event row is created for what it finds unless the check
\* matches.
ExtractEvents ==
    /\ \E a \in DOMAIN articles, found \in Extractions :
        /\ articles[a].analyzed
        /\ LET fresh == {f \in found : ~EventExists(a, f.title)}
           IN /\ Len(events) + Cardinality(fresh) <= MaxEvents
              /\ events' = IF fresh = {} THEN events
                           ELSE Append(events, NewEvent(a, CHOOSE f \in fresh : TRUE))
    /\ UNCHANGED <<articles, now, upcoming, ingestVars, uiVars, subscriberVars, page,
                   dispatchVars, classifyVars>>

\* An event is flagged cancelled; the row stays.
CancelEvent ==
    /\ \E i \in DOMAIN events :
        /\ ~events[i].is_cancelled
        /\ events' = [events EXCEPT ![i].is_cancelled = TRUE]
    /\ UNCHANGED <<articles, now, upcoming, ingestVars, uiVars, subscriberVars,
                   page, dispatchVars, classifyVars>>

\* A day passes.
Tick ==
    /\ now < MaxDay
    /\ now' = now + 1
    /\ UNCHANGED <<articles, events, upcoming, ingestVars, uiVars, subscriberVars,
                   page, dispatchVars, classifyVars>>

UpcomingFilter_Timeline(row, at, days) ==
    row.event_date >= at /\ row.event_date <= at + days

\* The filter of get_upcoming_events: from now to the cutoff, not cancelled.
UpcomingFilter(row, at, days) ==
    /\ row.event_date >= at
    /\ row.event_date <= at + days
    /\ row.is_cancelled = FALSE

\* GET /api/events/upcoming?days=N: the rows the query returns.
get_upcoming_events ==
    /\ \E days \in QueryDays :
        upcoming' = [at |-> now, days |-> days,
                     events |-> {[id |-> i, event_date |-> events[i].event_date,
                                  is_cancelled |-> events[i].is_cancelled] :
                                    i \in {j \in DOMAIN events :
                                            UpcomingFilter(events[j], now, days)}}]
    /\ UNCHANGED <<articles, events, now, ingestVars, uiVars, subscriberVars,
                   page, dispatchVars, classifyVars>>

\* An article is ingested while the calendar is in use.
SourceArticleAppears ==
    /\ Len(articles) < MaxEventArticles
    /\ ArticleAppears("zoning")

\* The calendar beside ingest and the classifier sweep.
NextEvents ==
    \/ SourceArticleAppears
    \/ ArticleAnalyzed
    \/ ExtractEvents
    \/ CancelEvent
    \/ Tick
    \/ get_upcoming_events

SpecEvents == Init /\ [][NextEvents]_vars

---------------------------------------------------------------------------
(* The landing page's forms: AskQuestion and EmailSubscribe *)

\* Questions sent to /api/ask before the visitor stops asking.
MaxAsked == 2

\* Texts of the input: characters are a space or a letter.
QuestionInputs == {<< >>, <<" ">>, <<"w">>, <<" ", "w", " ">>}

\* The example questions of the welcome screen.
ExampleQuestions == {<<"w">>}

Reverse(text) == [i \in 1..Len(text) |-> text[Len(text) + 1 - i]]

RECURSIVE TrimStart(_)
TrimStart(text) ==
    IF text # << >> /\ Head(text) = " " THEN TrimStart(Tail(text)) ELSE text

\* String.prototype.trim: the spaces at both ends are dropped.
Trim(text) == Reverse(TrimStart(Reverse(TrimStart(text))))

SubmitBlocked_Empty(text, busy) == Trim(text) = << >>

\* The guard of handleSubmit: `if (!question.trim() || loading) return`.
SubmitBlocked(text, busy) == Trim(text) = << >> \/ busy

\* The ways the awaited axios.post of the chat settles: a response, the
\* 60-second timeout or abort, a 503, an error response with a detail, no
\* response at all.
AskOutcomes == {"ok", "timeout", "503", "detail", "network"}

\* The message appended when the request has settled: the answer, or the
\* error text the catch block chooses.
AskReply(outcome) ==
    IF outcome = "ok" THEN [type |-> "answer", content |-> "answer"]
    ELSE IF outcome = "timeout"
    THEN [type |-> "error", content |-> "Request timed out."]
    ELSE IF outcome = "503"
    THEN [type |-> "error", content |-> "Service temporarily unavailable."]
    ELSE IF outcome = "detail"
    THEN [type |-> "error", content |-> "detail"]
    ELSE [type |-> "error", content |-> "Unable to get an answer. Please try again."]

LoadingAfter_Try(outcome) == outcome # "ok"

\* The finally block of both handlers: setLoading(false), however the
\* request ended.
LoadingAfter(outcome) == FALSE

\* onChange of the input, which is disabled while loading.
TypeQuestion(text) ==
    /\ ~loading["ask"]
    /\ question' = text
    /\ UNCHANGED <<articles, ingestVars, subscriberVars, page, dispatchVars, classifyVars,
                   eventVars, messages, loading, inflight, asked, notice, upage>>

\* An example question of the welcome screen, shown while the list is
\* empty, is clicked.
handleExampleClick(q) ==
    /\ messages = << >>
    /\ question' = q
    /\ UNCHANGED <<articles, ingestVars, subscriberVars, page, dispatchVars, classifyVars,
                   eventVars, messages, loading, inflight, asked, notice, upage>>

\* The form of the chat is submitted: the handler returns at once, or it
\* empties the input, appends the question, sets loading and posts.
handleSubmit ==
    /\ IF SubmitBlocked(question, loading["ask"])
       THEN UNCHANGED <<question, messages, loading, inflight, asked>>
       ELSE /\ asked < MaxAsked
            /\ question' = << >>
            /\ messages' = Append(messages,
                    [type |-> "question", content |-> Trim(question), ask |-> asked + 1])
            /\ loading' = [loading EXCEPT !["ask"] = TRUE]
            /\ inflight' = [inflight EXCEPT !["ask"] = @ \cup {asked + 1}]
            /\ asked' = asked + 1
    /\ UNCHANGED <<articles, ingestVars, subscriberVars, page, dispatchVars, classifyVars,
                   eventVars, notice, upage>>

\* The awaited post settles: the answer or the error is appended, then the
\* finally block runs.
AskSettles ==
    /\ \E id \in inflight["ask"], outcome \in AskOutcomes :
        /\ messages' = Append(messages,
                [type |-> AskReply(outcome).type, content |-> AskReply(outcome).content,
                 ask |-> id])
        /\ loading' = [loading EXCEPT !["ask"] = LoadingAfter(outcome)]
        /\ inflight' = [inflight EXCEPT !["ask"] = @ \ {id}]
    /\ UNCHANGED <<articles, ingestVars, subscriberVars, page, dispatchVars, classifyVars,
                   eventVars, question, asked, notice, upage>>

\* The Clear Chat button, there while the list is not empty.
clearChat ==
    /\ Len(messages) > 0
    /\ messages' = << >>
    /\ question' = << >>
    /\ UNCHANGED <<articles, ingestVars, subscriberVars, page, dispatchVars, classifyVars,
                   eventVars, loading, inflight, asked, notice, upage>>

\* The ways the awaited axios.post of /api/subscribe settles.
SubscribeOutcomes == {"ok", "detail", "network"}

\* EmailSubscribe.handleSubmit up to its await; the submit button is
\* disabled while loading.
SubscribeSubmit ==
    /\ ~loading["subscribe"]
    /\ loading' = [loading EXCEPT !["subscribe"] = TRUE]
    /\ notice' = "none"
    /\ inflight' = [inflight EXCEPT !["subscribe"] = {1}]
    /\ UNCHANGED <<articles, ingestVars, subscriberVars, page, dispatchVars, classifyVars,
                   eventVars, question, messages, asked, upage>>

\* The awaited post settles: the message or the error is shown, then the
\* finally block runs.
SubscribeSettles ==
    /\ inflight["subscribe"] # {}
    /\ \E outcome \in SubscribeOutcomes :
        /\ notice' = IF outcome = "ok" THEN "message" ELSE "error"
        /\ loading' = [loading EXCEPT !["subscribe"] = LoadingAfter(outcome)]
    /\ inflight' = [inflight EXCEPT !["subscribe"] = {}]
    /\ UNCHANGED <<articles, ingestVars, subscriberVars, page, dispatchVars, classifyVars,
                   eventVars, question, messages, asked, upage>>

NextForms ==
    \/ \E text \in QuestionInputs : TypeQuestion(text)
    \/ \E q \in ExampleQuestions : handleExampleClick(q)
    \/ handleSubmit
    \/ AskSettles
    \/ clearChat
    \/ SubscribeSubmit
    \/ SubscribeSettles

SpecForms == Init /\ [][NextForms]_vars

\* A request in flight settles: the chat's by its answer or its 60-second
\* timeout, the subscribe form's by its response or its failure.
SpecFormsLive == SpecForms /\ WF_vars(AskSettles) /\ WF_vars(SubscribeSettles)

---------------------------------------------------------------------------
(* Ingest: claims *)

OneRowPerCanonicalUrl ==
    \A i, j \in DOMAIN articles :
        Canonical(articles[i].url) = Canonical(articles[j].url) => i = j

\* C1: after any sequence of ingest calls the store holds at most one
\* article per canonical URL; an ingest returns Inserted only when no row
\* with the same canonical URL was there before, and AlreadyExists (adding
\* no row) when one was.
C1_IdempotentIngest ==
    /\ OneRowPerCanonicalUrl
    /\ \A ad \in Adapters :
        /\ lastCall[ad].result = "Inserted" => ~lastCall[ad].known
        /\ lastCall[ad].result = "AlreadyExists" => lastCall[ad].known

\* C2: the dedup key is the normalized URL: every stored url is in canonical
\* form and candidates that differ only in tracking parameters or host case
\* end up as one row.
C2_DedupOnCanonicalUrl ==
    /\ \A i \in DOMAIN articles : articles[i].url = Canonical(articles[i].url)
    /\ OneRowPerCanonicalUrl

\* C3: two scrapers ingesting the same URL (identical strings, hence the same
\* canonical URL) in any interleaving: exactly one of the two calls reports
\* the article as new, no run ends in an error, one row exists.
C3_AtomicIngest ==
    /\ \A u \in RawUrls :
        ~(u \in SeqToSet(pending["legistar"]) /\ u \in SeqToSet(pending["rss"]))
    /\ \A ad \in Adapters : lastRun[ad] # "error"
    /\ \A i, j \in DOMAIN articles : articles[i].url = articles[j].url => i = j

\* C14: a step in which one adapter's run fails (its source is unavailable or
\* its run raises) leaves the run of every other adapter as it is: position,
\* fetched matters, session and outcome; and it leaves the articles the
\* others have committed.
C14_AdapterFailuresIsolated ==
    [][\A ad \in Adapters :
            (/\ lastRun'[ad] \in {"error", "unavailable", "malformed"}
             /\ lastRun'[ad] # lastRun[ad] \/ (pc[ad] = "loop" /\ pc'[ad] = "idle"))
            => /\ articles' = articles
               /\ \A other \in Adapters \ {ad} :
                    /\ pc'[other] = pc[other]
                    /\ remaining'[other] = remaining[other]
                    /\ pending'[other] = pending[other]
                    /\ lastRun'[other] = lastRun[other]]_vars

\* One adapter's last run failed and the other's last run completed and
\* committed what it added.
C14_Witness ==
    \E ad \in Adapters, other \in Adapters :
        /\ ad # other
        /\ lastRun[ad] \in {"error", "unavailable"}
        /\ lastRun[other] = "ok"
        /\ pc[other] = "idle"
        /\ pending[other] # << >>
        /\ SeqToSet(pending[other]) \subseteq StoredUrls

\* C23: a record with partial fields is skipped and the run goes on: the
\* step that meets it leaves the run in its loop with the records taken
\* before it still in the session and the records after it still to come.
C23_MalformedRecordSkipped ==
    [][\A ad \in Adapters :
            (pc[ad] = "loop" /\ lastRun'[ad] = "malformed"
                /\ remaining'[ad] # remaining[ad])
            => /\ pc'[ad] = "loop"
               /\ pending'[ad] = pending[ad]
               /\ remaining'[ad] = remaining[ad] - 1]_vars

\* C25: an ingest that finds the url already there writes nothing: the step
\* leaves every row as it is (classification, scores, notified flag) and
\* adds nothing to the session; and no step of a scraper run changes a row
\* that is already stored.
C25_ReingestNoOp ==
    [][\A ad \in Adapters :
            /\ (remaining'[ad] < remaining[ad] /\ lastCall'[ad].result = "AlreadyExists")
                    => articles' = articles /\ pending'[ad] = pending[ad]
            /\ (pc[ad] = "loop" /\ (pc'[ad] # pc[ad] \/ remaining'[ad] # remaining[ad]))
                    => \A i \in DOMAIN articles : articles'[i] = articles[i]]_vars

\* A run found the url of a stored row again, and the rows stored are
\* analyzed ones with their scores.
C25_Witness ==
    /\ pc["legistar"] = "loop"
    /\ lastCall["legistar"].result = "AlreadyExists"
    /\ pending["legistar"] = << >>
    /\ articles # << >>
    /\ \A i \in DOMAIN articles :
            articles[i].analyzed /\ articles[i].priority_score # NULL

\* C15: a candidate with an empty URL is not stored and not added to a
\* session as new: no row and no pending add has the empty URL.
C15_EmptyFieldsRejected ==
    /\ \A i \in DOMAIN articles : articles[i].url # EmptyUrl
    /\ \A ad \in Adapters : EmptyUrl \notin SeqToSet(pending[ad])

---------------------------------------------------------------------------
(* Subscribers: claims *)

C24_UnsubscribeSticky ==
    [][/\ DOMAIN subscribers \subseteq DOMAIN subscribers'
       /\ \A e \in DOMAIN subscribers \cap DOMAIN subscribers' :
            /\ (subscribers[e].is_active /\ ~subscribers'[e].is_active) =>
                    subscribers'[e] = [subscribers[e] EXCEPT !.is_active = FALSE]
            /\ (~Eligible(subscribers[e]) /\ Eligible(subscribers'[e])) =>
                    consumed' # consumed]_vars

---------------------------------------------------------------------------
(* Dispatcher: claims *)

\* C4: in every dispatch run every selected recipient had verified = TRUE
\* and is_active = TRUE in the subscribers table when the run selected its
\* recipients; only selected recipients are sent to, and every address in an
\* alerts_sent row is one whose verification has succeeded.
C4_RecipientsVerifiedAndActive ==
    /\ \A d \in Dispatchers :
        /\ \A s \in dsp[d].snapshot : s.verified /\ s.is_active
        /\ dsp[d].targets = {s.email : s \in dsp[d].snapshot}
        /\ dsp[d].succeeded \subseteq dsp[d].targets
    /\ \A i \in DOMAIN alerts_sent : alerts_sent[i].sent_to \subseteq everVerified

\* A run has sent to a recipient while the table also holds a subscriber who
\* is unverified or inactive and was left out.
C4_Witness ==
    /\ dpc["d1"] = "sent"
    /\ dsp["d1"].succeeded # {}
    /\ \E e \in DOMAIN subscribers :
        /\ e \notin dsp["d1"].targets
        /\ ~(subscribers[e].verified /\ subscribers[e].is_active)
    /\ \E e \in DOMAIN subscribers : ~subscribers[e].is_active

C6_ConcurrentSweepsNoDuplicates ==
    (\A d \in Dispatchers : dpc[d] = "idle") =>
        \A i, j \in DOMAIN alerts_sent :
            (/\ i # j
             /\ alerts_sent[i].alert_type = alerts_sent[j].alert_type
             /\ alerts_sent[i].article_ids \cap alerts_sent[j].article_ids # {})
                => alerts_sent[i].sent_to \cap alerts_sent[j].sent_to = {}

\* C11: what is recorded is exactly what succeeded: while batches are sent
\* the recipients that succeeded so far are kept whatever the next batch
\* does; recording appends one row whose sent_to is the set of recipients
\* whose send succeeded (no row when none did); rows already in the log are
\* never changed or removed.
C11_PartialSuccessRecorded ==
    [][/\ \A d \in Dispatchers :
            /\ (dpc[d] = "selected" /\ dpc'[d] = "selected") =>
                    /\ dsp[d].succeeded \subseteq dsp'[d].succeeded
                    /\ dsp'[d].succeeded \subseteq dsp'[d].attempted
            /\ (dpc[d] = "sent" /\ dpc'[d] = "idle") =>
                    IF dsp[d].succeeded = {}
                    THEN alerts_sent' = alerts_sent
                    ELSE /\ Len(alerts_sent') = Len(alerts_sent) + 1
                         /\ alerts_sent'[Len(alerts_sent')].sent_to = dsp[d].succeeded
                         /\ alerts_sent'[Len(alerts_sent')].article_ids = {dsp[d].article}
                         /\ alerts_sent'[Len(alerts_sent')].alert_type = dsp[d].class
       /\ Len(alerts_sent') >= Len(alerts_sent)
       /\ \A i \in DOMAIN alerts_sent : alerts_sent'[i] = alerts_sent[i]]_vars

\* A dispatch to two recipients is through with one send succeeded and one
\* failed, and is about to be recorded.
C11_Witness ==
    /\ dpc["d1"] = "sent"
    /\ Cardinality(dsp["d1"].targets) = 2
    /\ dsp["d1"].attempted = dsp["d1"].targets
    /\ Cardinality(dsp["d1"].succeeded) = 1

\* C12: every message of a dispatch carries the unsubscribe link of the
\* unsubscribe_token of the subscriber it is sent to: never none, never the
\* token of another subscriber, and every recipient attempted got a message.
C12_UnsubscribeLinkPerRecipient ==
    \A d \in Dispatchers :
        /\ \A m \in dsp[d].messages :
            /\ m.to \in DOMAIN subscribers
            /\ m.link # NULL
            /\ m.link = subscribers[m.to].unsubscribe_token
            /\ \A e \in DOMAIN subscribers \ {m.to} :
                m.link # subscribers[e].unsubscribe_token
        /\ {m.to : m \in dsp[d].messages} = dsp[d].attempted

\* Two recipients were sent to in one dispatch.
C12_Witness ==
    /\ dpc["d1"] = "sent"
    /\ Cardinality(dsp["d1"].messages) = 2
    /\ dsp["d1"].succeeded # {}

\* C13: an instant alert is dispatched and recorded only for an analyzed
\* article with priority_score >= 8.
C13_InstantOnlyHighPriority ==
    /\ \A d \in Dispatchers :
        (dpc[d] # "idle" /\ dsp[d].class = "instant") =>
            /\ articles[dsp[d].article].analyzed
            /\ articles[dsp[d].article].priority_score >= 8
    /\ \A i \in DOMAIN alerts_sent :
        alerts_sent[i].alert_type = "instant" =>
            \A a \in alerts_sent[i].article_ids :
                articles[a].analyzed /\ articles[a].priority_score >= 8

\* An instant alert went out for a high-priority article while the store
\* also holds an article of lower or null priority.
C13_Witness ==
    /\ dpc["d1"] = "sent"
    /\ dsp["d1"].class = "instant"
    /\ dsp["d1"].succeeded # {}
    /\ \E a \in DOMAIN articles : articles[a].priority_score < 8

\* C21: a send that failed is left to a later cycle: when a dispatch is
\* recorded, a recipient whose send failed is in no alerts_sent row for the
\* article and class, and while that subscriber stays verified and active
\* the article is still one a later dispatch of the class selects.
C21_FailedSendRetried ==
    [][\A d \in Dispatchers :
            (dpc[d] = "sent" /\ dpc'[d] = "idle") =>
                \A e \in dsp[d].targets \ dsp[d].succeeded :
                    /\ \A i \in DOMAIN alerts_sent' :
                            ~Covers(alerts_sent'[i], e, dsp[d].article, dsp[d].class)
                    /\ Eligible(subscribers'[e]) =>
                            Candidate(dsp[d].class, articles'[dsp[d].article])]_vars

\* C26: alerts follow classification: a dispatch in progress is on an
\* analyzed article, every article in an alerts_sent row is analyzed, and so
\* is every article flagged notified, while articles are ingested, analyzed
\* and dispatched in any order.
C26_AlertsFollowClassification ==
    /\ \A d \in Dispatchers :
        dpc[d] # "idle" => ClassState(dsp[d].article) # "Unclassified"
    /\ \A i \in DOMAIN alerts_sent : \A a \in alerts_sent[i].article_ids :
        ClassState(a) # "Unclassified"
    /\ \A a \in DOMAIN articles :
        articles[a].notified => ClassState(a) # "Unclassified"

\* An alert for an analyzed article is recorded and the article flagged
\* while the store holds an article not yet analyzed.
C26_Witness ==
    /\ alerts_sent # << >>
    /\ \E a \in DOMAIN articles : articles[a].notified /\ articles[a].analyzed
    /\ \E a \in DOMAIN articles : ~articles[a].analyzed

---------------------------------------------------------------------------
(* Classifier: claims *)

ValidTransition(from, to) ==
    \/ from = to
    \/ from = "Unclassified" /\ to \in {"Classified", "ClassificationFailed"}
    \/ from = "ClassificationFailed" /\ to = "Classified"

C17_ScoresInRange ==
    \A i \in DOMAIN articles :
        IF ClassState(i) = "Unclassified"
        THEN articles[i].priority_score = NULL
        ELSE /\ articles[i].priority_score \in 1..10
             /\ articles[i].relevance_score \in 0..10
             /\ articles[i].category \in Categories
             /\ articles[i].county \in Counties

\* The classification columns of a row.
StoredClassification(row) ==
    <<row.priority_score, row.relevance_score, row.category, row.county, row.analyzed>>

\* C10: an article whose analysis came from the fallback has a priority_score
\* and its row differs from the row of every article the collaborator
\* classified: something stored marks it as fallback-derived.
C10_FallbackMarked ==
    \A i \in DOMAIN origin :
        origin[i] = "fallback" =>
            /\ articles[i].priority_score # NULL
            /\ \A j \in DOMAIN origin :
                origin[j] = "ai" =>
                    StoredClassification(articles[i]) # StoredClassification(articles[j])

\* C22: no sweep classifies an article again that is Classified, and none
\* overwrites the classification another sweep wrote: the classification
\* columns of a Classified article stay as they are, also while articles
\* are ingested and two sweeps overlap.
C22_NoDoubleProcessing ==
    [][\A i \in DOMAIN articles :
            ClassState(i) = "Classified" =>
                StoredClassification(articles'[i]) = StoredClassification(articles[i])]_vars

---------------------------------------------------------------------------
(* Events: claims *)

\* C16: a run of extract_events on an article that already has linked
\* events creates no Event and edits none: an Event is only ever created for
\* an article that has no linked event yet, and the titles, dates and
\* articles of the events there are left as they are.
C16_ExtractionIdempotent ==
    [][/\ Len(events') > Len(events) =>
            LinkedEvents(events'[Len(events')].article_id) = {}
       /\ \A i \in DOMAIN events :
            /\ events'[i].title = events[i].title
            /\ events'[i].event_date = events[i].event_date
            /\ events'[i].article_id = events[i].article_id]_vars

\* C18: every event in a response of /api/events/upcoming?days=N was not
\* cancelled and dated from the time of the query to N days later; and a
\* cancelled event stays in the store: rows of events are never removed and
\* change only by being flagged cancelled.
C18_UpcomingExcludesCancelled ==
    /\ [](\A e \in upcoming.events :
            /\ e.is_cancelled = FALSE
            /\ e.event_date >= upcoming.at
            /\ e.event_date <= upcoming.at + upcoming.days
            /\ e.id \in DOMAIN events
            /\ events[e.id].event_date = e.event_date)
    /\ [][/\ Len(events') >= Len(events)
          /\ \A i \in DOMAIN events :
                \/ events'[i] = events[i]
                \/ events'[i] = [events[i] EXCEPT !.is_cancelled = TRUE]]_vars

\* The query answered with an event while the store holds a cancelled event
\* in the same window, which the response leaves out.
C18_Witness ==
    /\ upcoming.events # {}
    /\ \E i \in DOMAIN events :
        /\ events[i].is_cancelled
        /\ events[i].event_date >= upcoming.at
        /\ events[i].event_date <= upcoming.at + upcoming.days
        /\ i \notin {e.id : e \in upcoming.events}
        /\ now = upcoming.at


---------------------------------------------------------------------------
(* The landing page's forms: claims *)

\* C27: at most one /api/ask request is in flight, and a submit while
\* loading or with a question that trims to nothing appends no message and
\* sends no request.
C27_OneAskInFlight ==
    /\ [](Cardinality(inflight["ask"]) <= 1)
    /\ [](inflight["ask"] # {} => loading["ask"])
    /\ [][(loading["ask"] \/ Trim(question) = << >>) =>
            (inflight'["ask"] \subseteq inflight["ask"] /\ asked' = asked
                /\ (Len(messages') > Len(messages) =>
                        messages'[Len(messages')].type # "question"))]_vars

\* A question is in the input while the request of an earlier one is in
\* flight.
C27_Witness ==
    /\ loading["ask"]
    /\ Cardinality(inflight["ask"]) = 1
    /\ Trim(question) # << >>

\* C28: every answer or error in the message list comes right after the
\* question it responds to.
C28_AnswerFollowsQuestion ==
    \A k \in DOMAIN messages :
        messages[k].type \in {"answer", "error"} =>
            /\ k > 1
            /\ messages[k - 1].type = "question"
            /\ messages[k - 1].ask = messages[k].ask

C29_PageStatusOnce ==
    [][\A p \in {<<page, page', "verifying">>, <<upage, upage', "unsubscribing">>} :
        LET old == p[1]  new == p[2]  busy == p[3] IN
        /\ (old.status \in {"closed", "success", "error"} /\ new # old)
               => new.status = busy /\ new.http = "none"
        /\ (old.status = busy /\ new # old) =>
            /\ new.token = old.token
            /\ new.status \in {"success", "error"}
            /\ old.token = NULL =>
                   new.status = "error" /\ new.http = "none" /\ subscribers' = subscribers
            /\ old.token # NULL => new.http \in {"200", "4xx", "neterr"}
            /\ new.http = "200" => new.status = "success"
            /\ new.http # "200" => new.status = "error"]_vars

\* Both pages have settled: one on a failure, one on a 200 response.
C29_Witness ==
    /\ page.status = "error" /\ page.http \in {"4xx", "neterr"}
    /\ upage.status = "success" /\ upage.http = "200"

=============================================================================
